---- MODULE Spec2Model ----
(***************************************************************************)
(* WARPOMODORO (src/app/page.tsx): the session state machine, the session  *)
(* clock, the speed model, the timer display, the starfield, the frame     *)
(* loop and the theme of the starfield timer.                              *)
(*                                                                         *)
(* Time is in milliseconds, as Date.now() gives it.  Speeds, the progress  *)
(* values in [0,1] and the coordinates of a star are fixed-point numbers   *)
(* in thousandths (0.2 is 200, 10.5 is 10500, progress 1 is 1000); a       *)
(* JavaScript division becomes the integer division of the scaled          *)
(* operands.                                                               *)
(*                                                                         *)
(* The specifications share the session actions and each follows one more  *)
(* part of the page, leaving the variables of the other parts as they are: *)
(*   Spec, SpecApi, SpecLive   the session, its clock and the speed        *)
(*   SpecDisplay               and the render of the timer display         *)
(*   SpecStars                 and one star of the starfield               *)
(*   SpecLoop                  and the requestAnimationFrame loop          *)
(*   SpecTheme                 and the theme with its storage              *)
(*   SpecSpeed                 the acceleration curve at sampled instants  *)
(*   SpecExit                  the exit curve of a break at sampled        *)
(*                             instants                                    *)
(*   SpecStore                 and what localStorage keeps over a reload   *)
(*   SpecClosure               and the render apart from the update, with  *)
(*                             the callback of the last render             *)
(*   SpecAudio                 and the ambient audio with its fade-out     *)
(*                             timeouts                                    *)
(***************************************************************************)
EXTENDS Integers, Sequences, FiniteSets, TLC

VARIABLES
    state,               \* useState<TimerState>("idle")                 (line 92)
    completedSessions,   \* useState(0)                                  (line 94)
    startTimeRef,        \* useRef<number>(0)                            (line 83)
    workElapsedRef,      \* useRef<number>(0)                            (line 86)
    breakStartSpeedRef,  \* useRef<number>(0)                            (line 85)
    lsCompleted,         \* localStorage "warpomodoro-completed-sessions"
    now,                 \* Date.now() as the last callback read it
    speed,               \* animate: let speed, as the last frame left it
    isExitingWarp,       \* animate: let isExitingWarp, of the last frame
    last,                \* history: the operation that ran last
    pre,                 \* history: the session values before that operation
    worked,              \* history: time spent in "working" in this session
    fine,                \* history: number of fine clock steps taken
    fadeOpacity,         \* useState(0), in thousandths                  (line 95)
    currentTheme,        \* useState<ThemeKey>("CORE")                   (line 98)
    lsTheme,             \* localStorage "warpomodoro-theme"
    frameTheme,          \* animate: const theme, of the last frame     (line 180)
    preTheme,            \* history: currentTheme and lsTheme before the operation
    shown,               \* what the last render put on the timer display
    mounted,             \* the component is mounted
    canvasOk,            \* canvasRef.current and its 2D context are there
    pending,             \* requestAnimationFrame handles not yet run or cancelled
    animationRef,        \* useRef<number>()                             (line 82)
    star,                \* one element of starsRef.current             (line 81)
    preStar,             \* history: the star before the last frame
    starLog,             \* history: what the last frame did to the star
    frames,              \* history: number of frames run on the star
    probe,               \* arguments handed to a pure function
    probeOut,            \* what it returned
    ambientEnabled,      \* useState(true)                              (line 100)
    lsAmbient,           \* localStorage "warpomodoro-ambient"
    captured,            \* the state and the counter that the animate of the
                         \* last render closed over (line 394)
    audio                \* audioRef.current: paused or playing, and the
                         \* fade-out timeouts not yet run (lines 87, 143)

sessionVars == <<state, completedSessions, startTimeRef, workElapsedRef,
                 breakStartSpeedRef, lsCompleted, now, speed, isExitingWarp,
                 last, pre, worked, fine, fadeOpacity>>
themeVars == <<currentTheme, lsTheme, frameTheme, preTheme>>
loopVars == <<mounted, canvasOk, pending, animationRef>>
starVars == <<star, preStar, starLog, frames>>
probeVars == <<probe, probeOut>>
storeVars == <<ambientEnabled, lsAmbient>>

vars == <<sessionVars, themeVars, shown, loopVars, starVars, probeVars,
          storeVars, captured, audio>>

-----------------------------------------------------------------------------
(* CONFIG, lines 6-28 *)
WORK_DURATION == 1500000
BREAK_DURATION == 300000
IDLE_SPEED == 200
STAR_SPEED_MIN == 50
STAR_SPEED_BASE == 1000
STAR_SPEED_MAX == 10500
ACCELERATION_TIME == 300000
EXIT_ANIMATION_TIME == 1200
STAR_RESPAWN_DISTANCE == 650000     \* a depth, in thousandths
TRAIL_LENGTH_BASE == 400            \* pixels
TRAIL_LENGTH_MULTIPLIER == 300      \* pixels
AUDIO_FADE_DURATION == 1500         \* 1.5 s

(* THEMES, lines 31-62 *)
THEMES ==
    [CORE |-> [name |-> "CORE", background |-> "#000000",
               stars |-> "#f5f5f5", starsSecondary |-> "#e0e0e0"],
     SOFTLINE |-> [name |-> "SOFTLINE", background |-> "#2d2d2d",
                   stars |-> "#87ceeb", starsSecondary |-> "#b0e0e6"],
     GLINT |-> [name |-> "GLINT", background |-> "#2e2e2e",
                stars |-> "#d0d0d0", starsSecondary |-> "#ff69b4"],
     STATIC |-> [name |-> "STATIC", background |-> "#2e2e2e",
                 stars |-> "#99ff99", starsSecondary |-> "#66ff66"],
     FOG |-> [name |-> "FOG", background |-> "#2e2e2e",
              stars |-> "#d0d0d0", starsSecondary |-> "#999999"]]

(* type ThemeKey, line 77 *)
ThemeKey == DOMAIN THEMES

(* THEMES is an object literal: besides its own keys it answers to the      *)
(* property names it inherits from Object.prototype, with a function.       *)
InheritedKeys == {"constructor"}
undefined == [undefined |-> TRUE]

(* THEMES[key] *)
themeOf(key) ==
    IF key \in ThemeKey THEN THEMES[key]
    ELSE IF key \in InheritedKeys THEN [inherited |-> key]
    ELSE undefined

(* type TimerState, line 76 *)
TimerState == {"idle", "working", "paused", "workComplete", "break", "breakComplete"}

-----------------------------------------------------------------------------
(* Bounds of the model *)
MaxNow == 2400000       \* the clock stops advancing here
MaxFine == 3            \* fine clock steps in one behaviour
MaxSamples == 16        \* sampled instants of the acceleration curve
MaxFrames == 5          \* frames run on the star that is followed
MaxHandles == 3         \* requestAnimationFrame handles told apart

FineStep == EXIT_ANIMATION_TIME \div 2
CoarseStep == BREAK_DURATION
Steps == {0, FineStep, CoarseStep}
CoarseSteps == {0, CoarseStep}

-----------------------------------------------------------------------------
Min(a, b) == IF a < b THEN a ELSE b
Max(a, b) == IF a > b THEN a ELSE b

(* Math.min(x / d, 1) in thousandths, for x >= 0 and d > 0 *)
Ratio(x, d) == IF x >= d THEN 1000 ELSE (x * 1000) \div d

(* Mutant: the curve is stretched over the whole work session *)
workingSpeed_OverSession(totalElapsed) ==
    LET accelerationProgress == Ratio(totalElapsed, WORK_DURATION)
        easedProgress == (accelerationProgress * accelerationProgress
                            * (3000 - 2 * accelerationProgress)) \div 1000000
        dramaticProgress == (easedProgress * easedProgress) \div 1000
    IN  IDLE_SPEED + ((STAR_SPEED_MAX - IDLE_SPEED) * dramaticProgress) \div 1000

(* lines 202-209 and 241-244: the acceleration curve *)
workingSpeed(totalElapsed) ==
    LET accelerationProgress == Ratio(totalElapsed, ACCELERATION_TIME)
        easedProgress == (accelerationProgress * accelerationProgress
                            * (3000 - 2 * accelerationProgress)) \div 1000000
        dramaticProgress == (easedProgress * easedProgress) \div 1000
    IN  IDLE_SPEED + ((STAR_SPEED_MAX - IDLE_SPEED) * dramaticProgress) \div 1000

(* lines 232-249: speed and isExitingWarp of a frame in "break" *)
exitProgress(elapsed) == Ratio(elapsed, EXIT_ANIMATION_TIME)

(* Mutant: the exit decelerates to a standstill *)
breakSpeed_ToZero(elapsed, workElapsed) ==
    IF exitProgress(elapsed) < 1000
    THEN LET r == 1000 - exitProgress(elapsed)
             easedExit == 1000 - (r * r * r) \div 1000000
             startingSpeed == workingSpeed(workElapsed)
         IN  (startingSpeed * (1000 - easedExit)) \div 1000
    ELSE 50

breakSpeed(elapsed, workElapsed) ==
    IF exitProgress(elapsed) < 1000
    THEN LET r == 1000 - exitProgress(elapsed)
             easedExit == 1000 - (r * r * r) \div 1000000
             startingSpeed == workingSpeed(workElapsed)
         IN  (startingSpeed * (1000 - (easedExit * 98) \div 100)) \div 1000
    ELSE 50

(* lines 649-664: the speed takeBreak stores in breakStartSpeedRef *)
currentSpeed(elapsed) ==
    IF elapsed < 5000
    THEN LET rampProgress == (elapsed * 1000) \div 5000
             easedRamp == (rampProgress * rampProgress
                             * (3000 - 2 * rampProgress)) \div 1000000
         IN  IDLE_SPEED + ((STAR_SPEED_BASE - IDLE_SPEED) * easedRamp) \div 1000
    ELSE LET easedProgress == Ratio(elapsed - 5000, WORK_DURATION - 5000)
             aggressiveProgress ==
                 (easedProgress * easedProgress * easedProgress) \div 1000000
         IN  STAR_SPEED_BASE
               + ((STAR_SPEED_MAX - STAR_SPEED_BASE) * aggressiveProgress) \div 1000

(* Number.prototype.toString: the decimal digits of n >= 0 *)
RECURSIVE toString(_)
toString(n) == IF n < 10 THEN <<n>> ELSE Append(toString(n \div 10), n % 10)

(* lines 694-699: MM:SS as the pair <<minutes, seconds>> *)
formatTime(milliseconds) ==
    LET totalSeconds == milliseconds \div 1000
    IN  <<totalSeconds \div 60, totalSeconds % 60>>

(* lines 702-715 *)
getCurrentTime(st, t, startTime, workElapsed) ==
    IF st = "working"
    THEN LET currentElapsed == t - startTime
             totalElapsed == workElapsed + currentElapsed
         IN  formatTime(Max(WORK_DURATION - totalElapsed, 0))
    ELSE IF st = "break"
    THEN formatTime(Max(WORK_DURATION - workElapsed, 0))
    ELSE <<25, 0>>

(* Mutant: the percentage is not capped *)
getProgress_Uncapped(st, t, startTime, workElapsed) ==
    IF st = "working"
    THEN ((workElapsed + (t - startTime)) * 100) \div (WORK_DURATION \div 1000)
    ELSE IF st = "break"
    THEN (workElapsed * 100) \div (WORK_DURATION \div 1000)
    ELSE 0

(* lines 718-729: the percentage, in thousandths of a percent *)
getProgress(st, t, startTime, workElapsed) ==
    IF st = "working"
    THEN Min(((workElapsed + (t - startTime)) * 100) \div (WORK_DURATION \div 1000), 100000)
    ELSE IF st = "break"
    THEN Min((workElapsed * 100) \div (WORK_DURATION \div 1000), 100000)
    ELSE 0

-----------------------------------------------------------------------------
Snap == [state |-> state, startTimeRef |-> startTimeRef,
         workElapsedRef |-> workElapsedRef,
         completedSessions |-> completedSessions, now |-> now,
         worked |-> worked]

(* lines 80-102: the refs and the state as the component creates them *)
InitSession ==
    /\ state = "idle"
    /\ completedSessions = 0
    /\ startTimeRef = 0
    /\ workElapsedRef = 0
    /\ breakStartSpeedRef = 0
    /\ lsCompleted = <<>>
    /\ now = 0
    /\ speed = STAR_SPEED_MIN
    /\ isExitingWarp = FALSE
    /\ last = "init"
    /\ pre = [state |-> "idle", startTimeRef |-> 0, workElapsedRef |-> 0,
              completedSessions |-> 0, now |-> 0, worked |-> 0]
    /\ worked = 0
    /\ fine = 0
    /\ fadeOpacity = 0

(* line 98, and a browser that has stored no theme *)
InitTheme ==
    /\ currentTheme = "CORE"
    /\ lsTheme = ""
    /\ frameTheme = THEMES["CORE"]
    /\ preTheme = [currentTheme |-> "CORE", lsTheme |-> "", request |-> ""]

(* line 100, and a browser that has stored no ambient setting *)
InitAmbient ==
    /\ ambientEnabled = TRUE
    /\ lsAmbient = ""

(* lines 92, 94: what the animate of the first render closes over; lines    *)
(* 423-427: the audio element as created, not playing, no fade under way    *)
InitClosure ==
    /\ captured = [state |-> "idle", completedSessions |-> 0]
    /\ audio = [paused |-> TRUE, timers |-> {}]

(* lines 583-585: mounted, the first frame requested *)
InitLoop ==
    /\ mounted = TRUE
    /\ pending = {1}
    /\ animationRef = 1

(* line 81: starsRef as useRef creates it, no star followed *)
InitNoStar ==
    /\ star = <<>>
    /\ preStar = <<>>
    /\ starLog = <<>>
    /\ frames = 0

InitNoProbe ==
    /\ probe = <<>>
    /\ probeOut = <<>>

Init ==
    /\ InitSession
    /\ InitTheme
    /\ shown = [time |-> <<25, 0>>, progress |-> 0]
    /\ InitLoop
    /\ InitAmbient
    /\ InitClosure
    /\ canvasOk = TRUE
    /\ InitNoStar
    /\ InitNoProbe

(* lines 190-256: the speed a frame selects *)
frameSpeed(st, elapsed, workElapsed) ==
    CASE st = "idle" -> IDLE_SPEED
      [] st = "working" -> workingSpeed(workElapsed + elapsed)
      [] st = "workComplete" -> 200
      [] st = "break" -> breakSpeed(elapsed, workElapsed)
      [] st = "breakComplete" -> 50
      [] OTHER -> STAR_SPEED_MIN

(* Mutant: the exit animation is taken to include its last instant *)
frameExiting_Inclusive(st, elapsed) ==
    st = "break" /\ elapsed <= EXIT_ANIMATION_TIME

(* lines 230-235: isExitingWarp of a frame *)
frameExiting(st, elapsed) == st = "break" /\ exitProgress(elapsed) < 1000

(* Mutant: completion is detected only at the exact instant *)
workIsComplete_Exact(st, totalElapsed) ==
    st = "working" /\ totalElapsed = WORK_DURATION

(* line 212: natural completion of the work session *)
workIsComplete(st, totalElapsed) ==
    st = "working" /\ totalElapsed >= WORK_DURATION

(* Mutant: the break must run past its duration *)
breakIsOver_Strict(st, elapsed) == st = "break" /\ elapsed > BREAK_DURATION

(* line 251: the break has run its time *)
breakIsOver(st, elapsed) == st = "break" /\ elapsed >= BREAK_DURATION

(* Mutant: the completion fades the message in *)
animateAs_FadesIn(st, count, dt) ==
    LET currentTime == now + dt
        elapsed == currentTime - startTimeRef
        totalElapsed == workElapsedRef + elapsed
        complete == workIsComplete(st, totalElapsed)
    IN  /\ currentTime <= MaxNow
        /\ dt = FineStep =>
              /\ fine < MaxFine
              /\ st \in {"working", "break"}
              /\ now - startTimeRef < 2 * EXIT_ANIMATION_TIME
        /\ now' = currentTime
        /\ speed' = frameSpeed(st, elapsed, workElapsedRef)
        /\ isExitingWarp' = frameExiting(st, elapsed)
        /\ state' = IF complete THEN "workComplete"
                    ELSE IF breakIsOver(st, elapsed) THEN "breakComplete"
                    ELSE state
        /\ completedSessions' = IF complete THEN count + 1
                                ELSE completedSessions
        /\ lsCompleted' = IF complete THEN toString(count + 1)
                          ELSE lsCompleted
        /\ workElapsedRef' = IF complete THEN 0 ELSE workElapsedRef
        /\ worked' = IF complete THEN 0
                     ELSE IF st = "working" THEN worked + dt ELSE worked
        /\ fine' = IF dt = FineStep THEN fine + 1 ELSE fine
        /\ last' = "animate"
        /\ fadeOpacity' = IF complete THEN 1000 ELSE fadeOpacity
        /\ pre' = Snap
        /\ UNCHANGED <<startTimeRef, breakStartSpeedRef>>

(* Mutant: the completion adds 1 to the latest counter, not to the one the *)
(* callback closed over                                                    *)
animateAs_Functional(st, count, dt) ==
    LET currentTime == now + dt
        elapsed == currentTime - startTimeRef
        totalElapsed == workElapsedRef + elapsed
        complete == workIsComplete(st, totalElapsed)
    IN  /\ currentTime <= MaxNow
        /\ dt = FineStep =>
              /\ fine < MaxFine
              /\ st \in {"working", "break"}
              /\ now - startTimeRef < 2 * EXIT_ANIMATION_TIME
        /\ now' = currentTime
        /\ speed' = frameSpeed(st, elapsed, workElapsedRef)
        /\ isExitingWarp' = frameExiting(st, elapsed)
        /\ state' = IF complete THEN "workComplete"
                    ELSE IF breakIsOver(st, elapsed) THEN "breakComplete"
                    ELSE state
        /\ completedSessions' = IF complete THEN completedSessions + 1
                                ELSE completedSessions
        /\ lsCompleted' = IF complete THEN toString(completedSessions + 1)
                          ELSE lsCompleted
        /\ workElapsedRef' = IF complete THEN 0 ELSE workElapsedRef
        /\ worked' = IF complete THEN 0
                     ELSE IF st = "working" THEN worked + dt ELSE worked
        /\ fine' = IF dt = FineStep THEN fine + 1 ELSE fine
        /\ last' = "animate"
        /\ fadeOpacity' = IF complete THEN 0 ELSE fadeOpacity
        /\ pre' = Snap
        /\ UNCHANGED <<startTimeRef, breakStartSpeedRef>>

(* lines 167-394: one frame, run dt after the callback before it (dt is    *)
(* what Date.now() at line 186 has advanced by); the session part.  st and *)
(* count are the state and the counter the callback closed over (line 394).*)
animateAs(st, count, dt) ==
    LET currentTime == now + dt
        elapsed == currentTime - startTimeRef
        totalElapsed == workElapsedRef + elapsed
        complete == workIsComplete(st, totalElapsed)
    IN  /\ currentTime <= MaxNow
        /\ dt = FineStep =>
              /\ fine < MaxFine
              /\ st \in {"working", "break"}
              /\ now - startTimeRef < 2 * EXIT_ANIMATION_TIME
        /\ now' = currentTime
        /\ speed' = frameSpeed(st, elapsed, workElapsedRef)
        /\ isExitingWarp' = frameExiting(st, elapsed)
        /\ state' = IF complete THEN "workComplete"
                    ELSE IF breakIsOver(st, elapsed) THEN "breakComplete"
                    ELSE state
        /\ completedSessions' = IF complete THEN count + 1
                                ELSE completedSessions
        /\ lsCompleted' = IF complete THEN toString(count + 1)
                          ELSE lsCompleted
        /\ workElapsedRef' = IF complete THEN 0 ELSE workElapsedRef
        /\ worked' = IF complete THEN 0
                     ELSE IF st = "working" THEN worked + dt ELSE worked
        /\ fine' = IF dt = FineStep THEN fine + 1 ELSE fine
        /\ last' = "animate"
        /\ fadeOpacity' = IF complete THEN 0 ELSE fadeOpacity
        /\ pre' = Snap
        /\ UNCHANGED <<startTimeRef, breakStartSpeedRef>>

(* The frame of a render that is up to date: the animate that runs closed   *)
(* over the current state and counter                                       *)
animate(dt) == animateAs(state, completedSessions, dt)

(* lines 643-676 *)
takeBreak ==
    /\ IF state = "working"
       THEN /\ workElapsedRef' = now - startTimeRef
            /\ breakStartSpeedRef' = currentSpeed(now - startTimeRef)
            /\ state' = "break"
            /\ startTimeRef' = now
       ELSE UNCHANGED <<workElapsedRef, breakStartSpeedRef, state, startTimeRef>>
    /\ last' = "takeBreak"
    /\ UNCHANGED fadeOpacity
    /\ pre' = Snap
    /\ UNCHANGED <<completedSessions, lsCompleted, now, speed, isExitingWarp,
                   worked, fine>>

(* Mutant: an early exit is counted as a completed session *)
endSession_Counts ==
    /\ IF state = "working"
       THEN /\ state' = "idle"
            /\ workElapsedRef' = 0
            /\ completedSessions' = completedSessions + 1
       ELSE UNCHANGED <<state, workElapsedRef, completedSessions>>
    /\ last' = "endSession"
    /\ fadeOpacity' = IF state = "working" THEN 0 ELSE fadeOpacity
    /\ pre' = Snap
    /\ UNCHANGED <<startTimeRef, breakStartSpeedRef,
                   lsCompleted, now, speed, isExitingWarp, worked, fine>>

(* lines 679-691 *)
endSession ==
    /\ IF state = "working"
       THEN /\ state' = "idle"
            /\ workElapsedRef' = 0
       ELSE UNCHANGED <<state, workElapsedRef>>
    /\ last' = "endSession"
    /\ fadeOpacity' = IF state = "working" THEN 0 ELSE fadeOpacity
    /\ pre' = Snap
    /\ UNCHANGED <<completedSessions, startTimeRef, breakStartSpeedRef,
                   lsCompleted, now, speed, isExitingWarp, worked, fine>>

(* lines 732-741 *)
startWork ==
    /\ state' = "working"
    /\ startTimeRef' = now
    /\ workElapsedRef' = 0
    /\ worked' = 0
    /\ last' = "startWork"
    /\ fadeOpacity' = 0
    /\ pre' = Snap
    /\ UNCHANGED <<completedSessions, breakStartSpeedRef, lsCompleted, now,
                   speed, isExitingWarp, fine>>

(* Mutant: resuming leaves the clock of the break running *)
resumeWork_KeepsClock ==
    /\ state' = "working"
    /\ last' = "resumeWork"
    /\ fadeOpacity' = 0
    /\ pre' = Snap
    /\ UNCHANGED <<completedSessions, startTimeRef, workElapsedRef,
                   breakStartSpeedRef, lsCompleted, now, speed, isExitingWarp,
                   worked, fine>>

(* Mutant: resuming resets the accumulated work-elapsed, as startWork does *)
resumeWork_Resets ==
    /\ state' = "working"
    /\ startTimeRef' = now
    /\ workElapsedRef' = 0
    /\ last' = "resumeWork"
    /\ fadeOpacity' = 0
    /\ pre' = Snap
    /\ UNCHANGED <<completedSessions, breakStartSpeedRef,
                   lsCompleted, now, speed, isExitingWarp, worked, fine>>

(* lines 744-751 *)
resumeWork ==
    /\ state' = "working"
    /\ startTimeRef' = now
    /\ last' = "resumeWork"
    /\ fadeOpacity' = 0
    /\ pre' = Snap
    /\ UNCHANGED <<completedSessions, workElapsedRef, breakStartSpeedRef,
                   lsCompleted, now, speed, isExitingWarp, worked, fine>>

(* lines 754-761 *)
startBreak ==
    /\ state' = "break"
    /\ startTimeRef' = now
    /\ breakStartSpeedRef' = 0
    /\ last' = "startBreak"
    /\ fadeOpacity' = 0
    /\ pre' = Snap
    /\ UNCHANGED <<completedSessions, workElapsedRef, lsCompleted, now,
                   speed, isExitingWarp, worked, fine>>

(* Mutant: returning to idle keeps the banked work time *)
returnToIdle_KeepsElapsed ==
    /\ state' = "idle"
    /\ last' = "returnToIdle"
    /\ fadeOpacity' = 0
    /\ pre' = Snap
    /\ UNCHANGED <<completedSessions, startTimeRef, workElapsedRef,
                   breakStartSpeedRef, lsCompleted, now, speed, isExitingWarp,
                   worked, fine>>

(* lines 764-770 *)
returnToIdle ==
    /\ state' = "idle"
    /\ workElapsedRef' = 0
    /\ last' = "returnToIdle"
    /\ fadeOpacity' = 0
    /\ pre' = Snap
    /\ UNCHANGED <<completedSessions, startTimeRef, breakStartSpeedRef,
                   lsCompleted, now, speed, isExitingWarp, worked, fine>>

(* Mutant: the button of breakComplete starts the next work session *)
handleButtonClick_Relaunch ==
    \/ state = "idle" /\ startWork
    \/ state = "workComplete" /\ startBreak
    \/ state = "breakComplete" /\ startWork

(* lines 785-797: the switch of the main button *)
handleButtonClick ==
    \/ state = "idle" /\ startWork
    \/ state = "workComplete" /\ startBreak
    \/ state = "breakComplete" /\ returnToIdle

(* line 799 *)
showButton == state = "idle" \/ state = "workComplete" \/ state = "breakComplete"

(* The buttons the page renders: lines 1028-1030, 1066-1102, 1135-1137 *)
ClickMain == showButton /\ handleButtonClick
ClickSurface == state = "working" /\ takeBreak
ClickDisengage == state = "working" /\ endSession
ClickResume == state = "break" /\ resumeWork

(* What the session machine leaves alone *)
others == <<themeVars, shown, loopVars, starVars, probeVars, storeVars, captured, audio>>

Next ==
    \/ (\E dt \in Steps : animate(dt)) /\ UNCHANGED others
    \/ ClickMain /\ UNCHANGED others
    \/ ClickSurface /\ UNCHANGED others
    \/ ClickDisengage /\ UNCHANGED others
    \/ ClickResume /\ UNCHANGED others

Spec == Init /\ [][Next]_vars

(* The six handlers called directly, in whatever state the session is in *)
NextApi ==
    \/ (\E dt \in Steps : animate(dt)) /\ UNCHANGED others
    \/ startWork /\ UNCHANGED others
    \/ takeBreak /\ UNCHANGED others
    \/ endSession /\ UNCHANGED others
    \/ resumeWork /\ UNCHANGED others
    \/ startBreak /\ UNCHANGED others
    \/ returnToIdle /\ UNCHANGED others

SpecApi == Init /\ [][NextApi]_vars

(* A phase is entered only while the clock has room left to run it out *)
Horizon ==
    /\ state = "working" =>
          now + Max(WORK_DURATION - workElapsedRef, 0) + CoarseStep <= MaxNow
    /\ state = "break" => now + BREAK_DURATION + CoarseStep <= MaxNow

NextLive ==
    \/ (\E dt \in Steps : animate(dt)) /\ UNCHANGED others
    \/ ClickMain /\ Horizon' /\ UNCHANGED others
    \/ ClickSurface /\ Horizon' /\ UNCHANGED others
    \/ ClickDisengage /\ UNCHANGED others
    \/ ClickResume /\ Horizon' /\ UNCHANGED others

(* requestAnimationFrame (line 393) reschedules every frame, and the clock *)
(* moves on between frames.                                                *)
Frame == (\E dt \in Steps : animate(dt)) /\ UNCHANGED others
LaterFrame == (\E dt \in Steps \ {0} : animate(dt)) /\ UNCHANGED others

SpecLive == Init /\ [][NextLive]_vars /\ WF_vars(Frame) /\ WF_vars(LaterFrame)

-----------------------------------------------------------------------------
(* The timer display.  A render (the interval of lines 806-821 forces one   *)
(* every second, and it runs whether or not frames do) calls getCurrentTime *)
(* and getProgress (lines 1163, 1170), each of which reads Date.now().      *)
(* Here the frames read the clock on the coarse grid and a render reads it  *)
(* off that grid once.                                                      *)
(* Mutant: the render restarts the phase clock *)
render_Rebases(dt) ==
    /\ now + dt <= MaxNow
    /\ dt = FineStep => fine = 0
    /\ now' = now + dt
    /\ startTimeRef' = now + dt
    /\ shown' = [time |-> getCurrentTime(state, now + dt, startTimeRef, workElapsedRef),
                 progress |-> getProgress(state, now + dt, startTimeRef, workElapsedRef)]
    /\ worked' = IF state = "working" THEN worked + dt ELSE worked
    /\ last' = "render"
    /\ UNCHANGED fadeOpacity
    /\ pre' = Snap
    /\ fine' = IF dt = FineStep THEN fine + 1 ELSE fine
    /\ UNCHANGED <<state, completedSessions, workElapsedRef,
                   breakStartSpeedRef, lsCompleted, speed, isExitingWarp>>

render(dt) ==
    /\ now + dt <= MaxNow
    /\ dt = FineStep => fine = 0
    /\ now' = now + dt
    /\ shown' = [time |-> getCurrentTime(state, now + dt, startTimeRef, workElapsedRef),
                 progress |-> getProgress(state, now + dt, startTimeRef, workElapsedRef)]
    /\ worked' = IF state = "working" THEN worked + dt ELSE worked
    /\ last' = "render"
    /\ UNCHANGED fadeOpacity
    /\ pre' = Snap
    /\ fine' = IF dt = FineStep THEN fine + 1 ELSE fine
    /\ UNCHANGED <<state, completedSessions, startTimeRef, workElapsedRef,
                   breakStartSpeedRef, lsCompleted, speed, isExitingWarp>>

noDisplay == <<themeVars, loopVars, starVars, probeVars, storeVars, captured, audio>>

NextDisplay ==
    \/ (\E dt \in CoarseSteps : animate(dt)) /\ UNCHANGED others
    \/ (\E dt \in Steps : render(dt)) /\ UNCHANGED noDisplay
    \/ ClickMain /\ UNCHANGED others
    \/ ClickSurface /\ UNCHANGED others
    \/ ClickDisengage /\ UNCHANGED others
    \/ ClickResume /\ UNCHANGED others

SpecDisplay == Init /\ [][NextDisplay]_vars

-----------------------------------------------------------------------------
(* The frame loop: requestAnimationFrame, the effect that starts it and     *)
(* its cleanup (lines 393 and 583-591).  A handle is what                   *)
(* requestAnimationFrame returns; a new one differs from every handle that  *)
(* is pending or held in animationRef.  A state setter re-renders, the      *)
(* re-render makes a new animate (dependency list, line 394) and so         *)
(* re-runs the effect, before the next callback.                           *)
Handles == 1..MaxHandles

fresh(used) == CHOOSE f \in Handles \ used : \A g \in Handles \ used : f <= g

(* lines 393 and 584: animationRef.current = requestAnimationFrame(animate) *)
requestFrame(p, ref) ==
    LET f == fresh(p \cup {ref})
    IN  [pending |-> p \cup {f}, animationRef |-> f]

(* lines 586-590: the cleanup of the effect *)
cancelFrame(p, ref) == IF ref # 0 THEN p \ {ref} ELSE p

(* Mutant: the effect is cleaned up and not run again *)
startAnimation_NoRestart(p, ref) ==
    [pending |-> cancelFrame(p, ref), animationRef |-> ref]

(* lines 583-591, on a change of animate: the cleanup, then the effect *)
startAnimation(p, ref) == requestFrame(cancelFrame(p, ref), ref)

noLoop == <<themeVars, shown, starVars, probeVars, storeVars, captured, audio>>

(* Mutant: the frame that finds no canvas asks for the next one *)
animateNoCanvas_Reschedules(h) ==
    /\ ~canvasOk
    /\ pending' = requestFrame(pending \ {h}, animationRef).pending
    /\ animationRef' = requestFrame(pending \ {h}, animationRef).animationRef
    /\ last' = "animateNoCanvas"
    /\ UNCHANGED fadeOpacity
    /\ pre' = Snap
    /\ UNCHANGED <<state, completedSessions, startTimeRef, workElapsedRef,
                   breakStartSpeedRef, lsCompleted, now, speed, isExitingWarp,
                   worked, fine, mounted, canvasOk>>

(* lines 167-172: callback h runs and returns at the canvas guard *)
animateNoCanvas(h) ==
    /\ ~canvasOk
    /\ pending' = pending \ {h}
    /\ last' = "animateNoCanvas"
    /\ UNCHANGED fadeOpacity
    /\ pre' = Snap
    /\ UNCHANGED <<state, completedSessions, startTimeRef, workElapsedRef,
                   breakStartSpeedRef, lsCompleted, now, speed, isExitingWarp,
                   worked, fine, mounted, canvasOk, animationRef>>

(* lines 167-394: callback h runs a frame and asks for the next one; a      *)
(* frame that set the state or the counter re-runs the effect               *)
animateDrawn(h, dt) ==
    /\ canvasOk
    /\ animate(dt)
    /\ LET again == requestFrame(pending \ {h}, animationRef)
           loop == IF state' # state \/ completedSessions' # completedSessions
                   THEN startAnimation(again.pending, again.animationRef)
                   ELSE again
       IN  /\ pending' = loop.pending
           /\ animationRef' = loop.animationRef
    /\ UNCHANGED <<mounted, canvasOk>>

LoopSteps == CoarseSteps

animateLoop ==
    \E h \in pending :
        \/ \E dt \in LoopSteps : animateDrawn(h, dt)
        \/ animateNoCanvas(h)

(* A click that sets the state: the handler, then the effect again *)
restart ==
    /\ mounted
    /\ pending' = startAnimation(pending, animationRef).pending
    /\ animationRef' = startAnimation(pending, animationRef).animationRef
    /\ UNCHANGED <<mounted, canvasOk>>

(* Mutant: the unmount leaves the requested frame alone *)
unmount_NoCancel ==
    /\ mounted
    /\ mounted' = FALSE
    /\ canvasOk' = FALSE
    /\ last' = "unmount"
    /\ UNCHANGED fadeOpacity
    /\ pre' = Snap
    /\ UNCHANGED <<state, completedSessions, startTimeRef, workElapsedRef,
                   breakStartSpeedRef, lsCompleted, now, speed, isExitingWarp,
                   worked, fine, pending, animationRef>>

(* lines 586-590 at unmount: the cleanup runs, canvasRef is detached *)
unmount ==
    /\ mounted
    /\ mounted' = FALSE
    /\ canvasOk' = FALSE
    /\ pending' = cancelFrame(pending, animationRef)
    /\ last' = "unmount"
    /\ UNCHANGED fadeOpacity
    /\ pre' = Snap
    /\ UNCHANGED <<state, completedSessions, startTimeRef, workElapsedRef,
                   breakStartSpeedRef, lsCompleted, now, speed, isExitingWarp,
                   worked, fine, animationRef>>

InitLoopSpec ==
    /\ InitSession
    /\ InitTheme
    /\ shown = [time |-> <<25, 0>>, progress |-> 0]
    /\ InitLoop
    /\ InitAmbient
    /\ InitClosure
    /\ canvasOk \in BOOLEAN
    /\ InitNoStar
    /\ InitNoProbe

NextLoop ==
    \/ animateLoop /\ UNCHANGED noLoop
    \/ ClickMain /\ restart /\ UNCHANGED noLoop
    \/ ClickSurface /\ restart /\ UNCHANGED noLoop
    \/ ClickDisengage /\ restart /\ UNCHANGED noLoop
    \/ ClickResume /\ restart /\ UNCHANGED noLoop
    \/ unmount /\ UNCHANGED noLoop

(* The browser runs a requested callback at the next display frame *)
LoopFrame == animateLoop /\ UNCHANGED noLoop

SpecLoop == InitLoopSpec /\ [][NextLoop]_vars /\ WF_vars(LoopFrame)

-----------------------------------------------------------------------------
(* The theme and its storage (lines 180, 408-412, 635-640).  A stored value *)
(* is a string; getItem gives null for a missing item, which the test at    *)
(* line 410 treats as it treats "".                                         *)
StoredThemes == ThemeKey \cup InheritedKeys \cup {"WARP", ""}

SnapTheme(request) ==
    [currentTheme |-> currentTheme, lsTheme |-> lsTheme, request |-> request]

(* Number.parseInt(s, 10) of a string of decimal digits *)
RECURSIVE parseInt(_)
parseInt(s) ==
    IF Len(s) = 0 THEN 0
    ELSE parseInt(SubSeq(s, 1, Len(s) - 1)) * 10 + s[Len(s)]

(* Mutant: the selection is not written to storage *)
changeTheme_NotPersisted(theme) ==
    /\ IF themeOf(theme) # undefined
       THEN currentTheme' = theme /\ UNCHANGED lsTheme
       ELSE UNCHANGED <<currentTheme, lsTheme>>
    /\ preTheme' = SnapTheme(theme)
    /\ last' = "changeTheme"
    /\ UNCHANGED fadeOpacity
    /\ pre' = Snap
    /\ UNCHANGED <<state, completedSessions, startTimeRef, workElapsedRef,
                   breakStartSpeedRef, lsCompleted, now, speed, isExitingWarp,
                   worked, fine, frameTheme>>

(* lines 635-640 *)
changeTheme(theme) ==
    /\ IF themeOf(theme) # undefined
       THEN currentTheme' = theme /\ lsTheme' = theme
       ELSE UNCHANGED <<currentTheme, lsTheme>>
    /\ preTheme' = SnapTheme(theme)
    /\ last' = "changeTheme"
    /\ UNCHANGED fadeOpacity
    /\ pre' = Snap
    /\ UNCHANGED <<state, completedSessions, startTimeRef, workElapsedRef,
                   breakStartSpeedRef, lsCompleted, now, speed, isExitingWarp,
                   worked, fine, frameTheme>>

(* line 996: the buttons of the theme selector, shown in "idle" (line 975)  *)
ClickTheme == state = "idle" /\ \E key \in ThemeKey : changeTheme(key)

(* The item is written outside this page: by another version of the        *)
(* application, by another tab, by the user.                                *)
foreignStore(v) ==
    /\ lsTheme' = v
    /\ preTheme' = SnapTheme("")
    /\ last' = "foreignStore"
    /\ UNCHANGED fadeOpacity
    /\ pre' = Snap
    /\ UNCHANGED <<state, completedSessions, startTimeRef, workElapsedRef,
                   breakStartSpeedRef, lsCompleted, now, speed, isExitingWarp,
                   worked, fine, currentTheme, frameTheme>>

(* Mutant: a reload starts the counter afresh *)
reload_ForgetsCount ==
    /\ state' = "idle"
    /\ startTimeRef' = 0
    /\ workElapsedRef' = 0
    /\ breakStartSpeedRef' = 0
    /\ speed' = STAR_SPEED_MIN
    /\ isExitingWarp' = FALSE
    /\ worked' = 0
    /\ completedSessions' = 0
    /\ currentTheme' = IF lsTheme # "" /\ themeOf(lsTheme) # undefined
                       THEN lsTheme ELSE "CORE"
    /\ frameTheme' = THEMES["CORE"]
    /\ ambientEnabled' = (IF lsAmbient = "true" THEN TRUE ELSE TRUE)  \* 414-417
    /\ preTheme' = SnapTheme("")
    /\ last' = "reload"
    /\ fadeOpacity' = 0
    /\ pre' = Snap
    /\ UNCHANGED <<lsCompleted, lsTheme, lsAmbient, now, fine>>

(* The page is loaded again: the component is created anew (lines 80-102)   *)
(* and the effect of lines 397-418 reads the storage.                       *)
reload ==
    /\ state' = "idle"
    /\ startTimeRef' = 0
    /\ workElapsedRef' = 0
    /\ breakStartSpeedRef' = 0
    /\ speed' = STAR_SPEED_MIN
    /\ isExitingWarp' = FALSE
    /\ worked' = 0
    /\ completedSessions' = IF lsCompleted # <<>> THEN parseInt(lsCompleted) ELSE 0
    /\ currentTheme' = IF lsTheme # "" /\ themeOf(lsTheme) # undefined
                       THEN lsTheme ELSE "CORE"
    /\ frameTheme' = THEMES["CORE"]
    /\ ambientEnabled' = (IF lsAmbient = "true" THEN TRUE ELSE TRUE)  \* 414-417
    /\ preTheme' = SnapTheme("")
    /\ last' = "reload"
    /\ fadeOpacity' = 0
    /\ pre' = Snap
    /\ UNCHANGED <<lsCompleted, lsTheme, lsAmbient, now, fine>>

(* lines 167-394: one frame, with the theme it paints in (line 180) *)
animateThemed(dt) ==
    /\ animate(dt)
    /\ frameTheme' = IF themeOf(currentTheme) # undefined
                     THEN themeOf(currentTheme) ELSE THEMES["CORE"]
    /\ UNCHANGED <<currentTheme, lsTheme, preTheme>>

noTheme == <<shown, loopVars, starVars, probeVars, captured, audio>>

(* Nothing of the theme depends on the clock: the frames here run without  *)
(* letting it advance.                                                     *)
NextTheme ==
    \/ animateThemed(0) /\ UNCHANGED <<noTheme, storeVars>>
    \/ ClickTheme /\ UNCHANGED <<noTheme, storeVars>>
    \/ (\E v \in StoredThemes : foreignStore(v)) /\ UNCHANGED <<noTheme, storeVars>>
    \/ reload /\ UNCHANGED noTheme
    \/ ClickMain /\ UNCHANGED others
    \/ ClickSurface /\ UNCHANGED others
    \/ ClickDisengage /\ UNCHANGED others
    \/ ClickResume /\ UNCHANGED others

SpecTheme == Init /\ [][NextTheme]_vars

-----------------------------------------------------------------------------
(* The speed of a frame in "working" (lines 196-209), as a function of the  *)
(* accumulated and the live elapsed time, at sampled instants.              *)
SampleStep == ACCELERATION_TIME \div 12
Samples == {k * SampleStep : k \in 0..MaxSamples}

InitSpeed ==
    /\ InitSession
    /\ InitTheme
    /\ shown = [time |-> <<25, 0>>, progress |-> 0]
    /\ InitLoop
    /\ InitAmbient
    /\ InitClosure
    /\ canvasOk = TRUE
    /\ InitNoStar
    /\ probe \in {0, 4 * SampleStep} \X Samples \X Samples
    /\ probeOut = <<>>

ProbeSpeed ==
    /\ probeOut = <<>>
    /\ probeOut' = <<frameSpeed("working", probe[2], probe[1]),
                     frameSpeed("working", probe[3], probe[1])>>
    /\ UNCHANGED <<sessionVars, themeVars, shown, loopVars, starVars, probe,
                   storeVars, captured, audio>>

SpecSpeed == InitSpeed /\ [][ProbeSpeed]_vars

-----------------------------------------------------------------------------
(* The starfield (lines 114-128 and 263-376), followed on one star: the     *)
(* loop at line 263 treats every star alone.  Coordinates and depths are    *)
(* in thousandths, screen positions in pixels from the centre of the       *)
(* canvas, and Math.random() returns r / 1000; the draws of one call are    *)
(* taken together from a small set of tuples.                              *)
InitDraws == {<<0, 999, 0, 500, 0, 999>>, <<0, 0, 12, 0, 0, 0>>,
              <<999, 999, 999, 999, 999, 999>>, <<501, 499, 2, 0, 0, 0>>}
RespawnDraws == {<<0, 999, 0, 999>>, <<999, 0, 999, 0>>}

(* lines 116-125: one star as initStars pushes it *)
newStar(rx, ry, rz, rt, rs, rc) ==
    [x |-> (rx - 500) * 2000,
     y |-> (ry - 500) * 2000,
     z |-> rz * 1000,
     hasValidPrev |-> FALSE,
     twinkle |-> (rt * 6283) \div 1000,
     twinkleSpeed |-> 20 + (rs * 30) \div 1000,
     colorType |-> IF rc > 700 THEN "secondary" ELSE "primary",
     prevX |-> 0, prevY |-> 0]

initStars == {newStar(d[1], d[2], d[3], d[4], d[5], d[6]) : d \in InitDraws}

(* lines 270-271 and 305-306, without the centre *)
project(c, z) == (c * 120) \div z

(* Mutant: the stars keep drifting while the break holds them *)
moveStar_Drifts(s, st, spd, exiting, elapsed) ==
    IF (st = "break" \/ st = "breakComplete") /\ exiting
    THEN LET collapseForce == exitProgress(elapsed) * 3
             deltaX == 0 - project(s.x, s.z)
             deltaY == 0 - project(s.y, s.z)
         IN  [s EXCEPT !.x = s.x + (deltaX * collapseForce) \div 1000,
                       !.y = s.y + (deltaY * collapseForce) \div 1000,
                       !.z = s.z - spd]
    ELSE [s EXCEPT !.z = s.z - spd]

(* lines 273-292: the movement of a frame *)
moveStar(s, st, spd, exiting, elapsed) ==
    IF st = "break" \/ st = "breakComplete"
    THEN IF exiting
         THEN LET collapseForce == exitProgress(elapsed) * 3
                  deltaX == 0 - project(s.x, s.z)
                  deltaY == 0 - project(s.y, s.z)
              IN  [s EXCEPT !.x = s.x + (deltaX * collapseForce) \div 1000,
                            !.y = s.y + (deltaY * collapseForce) \div 1000,
                            !.z = s.z - spd]
         ELSE s
    ELSE [s EXCEPT !.z = s.z - spd]

(* Mutant: a respawned star keeps its stored position *)
respawnStar_KeepsPrev(s, rx, ry, rz, rc) ==
    IF s.z <= 1000
    THEN [s EXCEPT !.x = (rx - 500) * 2000,
                   !.y = (ry - 500) * 2000,
                   !.z = rz * 800 + STAR_RESPAWN_DISTANCE,
                   !.colorType = IF rc > 700 THEN "secondary" ELSE "primary"]
    ELSE s

(* Mutant: a star is repositioned only once it is behind the viewer *)
respawnStar_Behind(s, rx, ry, rz, rc) ==
    IF s.z <= 0
    THEN [s EXCEPT !.x = (rx - 500) * 2000,
                   !.y = (ry - 500) * 2000,
                   !.z = rz * 800 + STAR_RESPAWN_DISTANCE,
                   !.hasValidPrev = FALSE,
                   !.colorType = IF rc > 700 THEN "secondary" ELSE "primary"]
    ELSE s

(* lines 295-302: the respawn *)
respawnStar(s, rx, ry, rz, rc) ==
    IF s.z <= 1000
    THEN [s EXCEPT !.x = (rx - 500) * 2000,
                   !.y = (ry - 500) * 2000,
                   !.z = rz * 800 + STAR_RESPAWN_DISTANCE,
                   !.hasValidPrev = FALSE,
                   !.colorType = IF rc > 700 THEN "secondary" ELSE "primary"]
    ELSE s

(* lines 174-175: the canvas, in pixels *)
Canvas == [width |-> 1920, height |-> 1080]

(* line 309: the star is on the canvas or within 100 pixels of it *)
onScreen(x, y) ==
    /\ x >= -100 - Canvas.width \div 2
    /\ x <= Canvas.width \div 2 + 100
    /\ y >= -100 - Canvas.height \div 2
    /\ y <= Canvas.height \div 2 + 100

(* lines 259-260, in tenths of a pixel *)
maxTrailLength(spd) ==
    LET trailIntensity == Ratio(spd, STAR_SPEED_MAX)
    IN  TRAIL_LENGTH_BASE * 10 + (trailIntensity * TRAIL_LENGTH_MULTIPLIER) \div 100

Abs(n) == IF n < 0 THEN 0 - n ELSE n

(* lines 332-334: 0.3 < distance < maxTrailLength, on whole pixels and      *)
(* without the square root                                                 *)
trailFits(dx, dy, spd) ==
    /\ Abs(dx) * 10 < maxTrailLength(spd)
    /\ Abs(dy) * 10 < maxTrailLength(spd)
    /\ (dx * dx + dy * dy) * 100 < maxTrailLength(spd) * maxTrailLength(spd)
    /\ dx * dx + dy * dy > 0

(* Mutant: a trail is drawn at any speed *)
drawsTrail_AnySpeed(s, st, spd, exiting, x, y) ==
    /\ onScreen(x, y)
    /\ s.hasValidPrev
    /\ st = "working" \/ exiting
    /\ trailFits(x - s.prevX, y - s.prevY, spd)

(* lines 309 and 325-334: the loop strokes a trail for the star *)
drawsTrail(s, st, spd, exiting, x, y) ==
    /\ onScreen(x, y)
    /\ spd > 500
    /\ s.hasValidPrev
    /\ st = "working" \/ exiting
    /\ trailFits(x - s.prevX, y - s.prevY, spd)

(* Mutant: the respawn test comes before the movement of the frame *)
updateStar_RespawnFirst(s, st, spd, exiting, elapsed, rx, ry, rz, rc) ==
    LET twinkled == [s EXCEPT !.twinkle = s.twinkle + s.twinkleSpeed]
        moved == respawnStar(twinkled, rx, ry, rz, rc)
        placed == moveStar(moved, st, spd, exiting, elapsed)
        x == project(placed.x, placed.z)
        y == project(placed.y, placed.z)
    IN  [star |-> [placed EXCEPT !.prevX = x, !.prevY = y, !.hasValidPrev = TRUE],
         log |-> [zMoved |-> moved.z,
                  respawned |-> moved.z <= 1000,
                  placed |-> placed,
                  trail |-> drawsTrail(placed, st, spd, exiting, x, y),
                  from |-> <<placed.prevX, placed.prevY>>,
                  to |-> <<x, y>>]]

(* lines 263-376: the state one iteration of the star loop leaves, and what *)
(* it went through                                                         *)
updateStar(s, st, spd, exiting, elapsed, rx, ry, rz, rc) ==
    LET twinkled == [s EXCEPT !.twinkle = s.twinkle + s.twinkleSpeed]
        moved == moveStar(twinkled, st, spd, exiting, elapsed)
        placed == respawnStar(moved, rx, ry, rz, rc)
        x == project(placed.x, placed.z)
        y == project(placed.y, placed.z)
    IN  [star |-> [placed EXCEPT !.prevX = x, !.prevY = y, !.hasValidPrev = TRUE],
         log |-> [zMoved |-> moved.z,
                  respawned |-> moved.z <= 1000,
                  placed |-> placed,
                  trail |-> drawsTrail(placed, st, spd, exiting, x, y),
                  from |-> <<placed.prevX, placed.prevY>>,
                  to |-> <<x, y>>]]

InitStars ==
    /\ InitSession
    /\ InitTheme
    /\ shown = [time |-> <<25, 0>>, progress |-> 0]
    /\ InitLoop
    /\ InitAmbient
    /\ InitClosure
    /\ canvasOk = TRUE
    /\ star \in initStars
    /\ preStar = star
    /\ starLog = <<>>
    /\ frames = 0
    /\ InitNoProbe

noStars == <<themeVars, shown, loopVars, probeVars, storeVars, captured, audio>>

(* lines 167-394: one frame, the session part and the star loop *)
animateStars(dt) ==
    /\ frames < MaxFrames
    /\ animate(dt)
    /\ \E d \in RespawnDraws :
          LET r == updateStar(star, state, speed', isExitingWarp',
                              (now + dt) - startTimeRef, d[1], d[2], d[3], d[4])
          IN  /\ star' = r.star
              /\ starLog' = r.log
    /\ preStar' = star
    /\ frames' = frames + 1
    /\ UNCHANGED noStars

(* The clock steps between two frames of the starfield; the browser holds  *)
(* the frames of a hidden page back, so a frame can follow its predecessor *)
(* by a whole work session; the long step is taken while a session runs,  *)
(* where it brings the completion.                                         *)
LongStep == WORK_DURATION
StarSteps == Steps \cup {LongStep}

(* The frame loop starts at mount (line 584): a frame has run before the    *)
(* first click.                                                            *)
NextStars ==
    \/ \E dt \in StarSteps : (dt = LongStep => state = "working") /\ animateStars(dt)
    \/ frames > 0 /\ ClickMain /\ UNCHANGED others
    \/ frames > 0 /\ ClickSurface /\ UNCHANGED others
    \/ frames > 0 /\ ClickDisengage /\ UNCHANGED others
    \/ frames > 0 /\ ClickResume /\ UNCHANGED others

SpecStars == InitStars /\ [][NextStars]_vars

-----------------------------------------------------------------------------
(* Values the claims speak about *)
totalElapsedNow == workElapsedRef + (now - startTimeRef)
preTotalElapsed == pre.workElapsedRef + (pre.now - pre.startTimeRef)
UserOps == {"startWork", "takeBreak", "endSession", "resumeWork",
            "startBreak", "returnToIdle"}
Edges == {<<"idle", "working">>, <<"working", "workComplete">>,
          <<"working", "idle">>, <<"working", "break">>,
          <<"break", "breakComplete">>, <<"break", "working">>,
          <<"workComplete", "break">>, <<"breakComplete", "idle">>}

(* C1: a frame run in "working" completes the session (state workComplete,  *)
(* counter one higher) exactly when the time spent in "working" over all    *)
(* work phases of the session has reached WORK_DURATION, however many       *)
(* takeBreak/resumeWork pairs interrupted it.                                *)
C1_CompletionAtTotalWorkTime ==
    (last = "animate" /\ pre.state = "working") =>
        IF pre.worked + (now - pre.now) >= WORK_DURATION
        THEN state = "workComplete" /\ completedSessions = pre.completedSessions + 1
        ELSE state = "working" /\ completedSessions = pre.completedSessions

(* C2: the completed-session counter never decreases, and it changes (by 1)  *)
(* only in a frame that takes the state from working to workComplete.        *)
C2_CounterOnlyOnCompletion ==
    /\ completedSessions >= pre.completedSessions
    /\ completedSessions # pre.completedSessions =>
          /\ last = "animate"
          /\ pre.state = "working"
          /\ state = "workComplete"
          /\ completedSessions = pre.completedSessions + 1

C2_Witness ==
    /\ last = "endSession"
    /\ pre.state = "working"
    /\ pre.completedSessions = 1
    /\ preTotalElapsed > 0

(* C3: resumeWork sets the phase start to now and keeps the accumulated     *)
(* work-elapsed, which no step taken during the break changed: right after  *)
(* resuming, the total elapsed, the progress and the working speed are      *)
(* those of the value stored when the break was entered.                    *)
C3_ResumeKeepsAccumulated ==
    /\ pre.state = "break" => workElapsedRef = pre.workElapsedRef
    /\ last = "resumeWork" =>
          /\ state = "working"
          /\ startTimeRef = now
          /\ totalElapsedNow = pre.workElapsedRef
          /\ getProgress(state, now, startTimeRef, workElapsedRef)
               = getProgress("break", pre.now, pre.startTimeRef, pre.workElapsedRef)

C3_Witness ==
    /\ last = "resumeWork"
    /\ pre.state = "break"
    /\ pre.workElapsedRef = 2 * CoarseStep
    /\ now - pre.startTimeRef > 0

(* C4: throughout a break the remaining time and the progress shown do not  *)
(* change, and they are those of the work session at the moment the break   *)
(* was entered.                                                             *)
C4_BreakDisplayFrozen ==
    state = "break" =>
        /\ getCurrentTime(state, now, startTimeRef, workElapsedRef)
             = getCurrentTime(pre.state, pre.now, pre.startTimeRef, pre.workElapsedRef)
        /\ getProgress(state, now, startTimeRef, workElapsedRef)
             = getProgress(pre.state, pre.now, pre.startTimeRef, pre.workElapsedRef)

(* C5: every change of the session state follows one of the eight edges of  *)
(* the machine, and "paused" is never entered.                              *)
C5_OnlyDefinedEdges ==
    /\ state \in TimerState \ {"paused"}
    /\ state # pre.state => <<pre.state, state>> \in Edges

C5_Witness ==
    /\ last = "returnToIdle"
    /\ pre.state = "breakComplete"
    /\ state = "idle"
    /\ completedSessions = 1

(* C6: a user action requested in a state that does not define its          *)
(* transition changes neither the state, the phase start, the accumulated   *)
(* work-elapsed nor the counter.                                            *)
DefinedIn(op) ==
    CASE op = "startWork" -> "idle"
      [] op = "takeBreak" -> "working"
      [] op = "endSession" -> "working"
      [] op = "resumeWork" -> "break"
      [] op = "startBreak" -> "workComplete"
      [] op = "returnToIdle" -> "breakComplete"

C6_UndefinedRequestIsNoOp ==
    (last \in UserOps /\ pre.state # DefinedIn(last)) =>
        /\ state = pre.state
        /\ startTimeRef = pre.startTimeRef
        /\ workElapsedRef = pre.workElapsedRef
        /\ completedSessions = pre.completedSessions

(* C7: a work session the user leaves alone reaches workComplete; the frame *)
(* that completes it adds 1 to the counter and zeroes the accumulated       *)
(* work-elapsed, and every later frame in workComplete runs at speed 0.2.   *)
C7_WorkRunsToCompletion ==
    /\ (state = "working")
          ~> (state = "workComplete" \/ last \in {"takeBreak", "endSession"})
    /\ []((last = "animate" /\ pre.state = "working" /\ state # "working") =>
             /\ state = "workComplete"
             /\ completedSessions = pre.completedSessions + 1
             /\ workElapsedRef = 0)
    /\ []((last = "animate" /\ pre.state = "workComplete") =>
             /\ state = "workComplete"
             /\ speed = 200)

C7_Witness ==
    /\ last = "animate"
    /\ pre.state = "workComplete"
    /\ now > pre.now
    /\ completedSessions = 1
    /\ speed = 200

(* C8: a break the user leaves alone reaches breakComplete, in the first    *)
(* frame whose time since break entry is at least BREAK_DURATION and in no  *)
(* earlier one; that frame changes neither the counter nor the accumulated  *)
(* work-elapsed.                                                            *)
C8_BreakRunsToTimeout ==
    /\ (state = "break") ~> (state = "breakComplete" \/ last = "resumeWork")
    /\ []((last = "animate" /\ pre.state = "break") =>
             /\ state = IF now - startTimeRef >= BREAK_DURATION
                        THEN "breakComplete" ELSE "break"
             /\ completedSessions = pre.completedSessions
             /\ workElapsedRef = pre.workElapsedRef)

C8_Witness ==
    /\ last = "animate"
    /\ pre.state = "break"
    /\ state = "breakComplete"
    /\ now - startTimeRef = BREAK_DURATION
    /\ workElapsedRef > 0

(* C9: when takeBreak leaves "working", the speed the exit animation starts *)
(* from (break elapsed 0) is the working speed at the total work elapsed    *)
(* of that moment.                                                          *)
C9_ExitStartsAtWorkingSpeed ==
    (last = "takeBreak" /\ pre.state = "working") =>
        breakSpeed(0, workElapsedRef) = workingSpeed(preTotalElapsed)

(* C10: a frame has isExitingWarp exactly when it runs in "break" less than *)
(* EXIT_ANIMATION_TIME after break entry; a frame in "break" at or past     *)
(* that time, or in breakComplete, runs at speed 0.05.                      *)
C10_ExitingWarpOnlyInExitAnimation ==
    last = "animate" =>
        /\ isExitingWarp <=>
              (pre.state = "break" /\ now - startTimeRef < EXIT_ANIMATION_TIME)
        /\ (pre.state \in {"break", "breakComplete"} /\ ~isExitingWarp) => speed = 50

C10_Witness ==
    /\ last = "animate"
    /\ pre.state = "break"
    /\ now - startTimeRef = EXIT_ANIMATION_TIME
    /\ workElapsedRef >= ACCELERATION_TIME
    /\ ~isExitingWarp
    /\ speed = 50

(* C11: in "working" the speed of a frame never decreases as the total      *)
(* elapsed work time grows, is IDLE_SPEED at total elapsed 0, is            *)
(* STAR_SPEED_MAX from ACCELERATION_TIME on, and never exceeds it.          *)
C11_WorkingSpeedCurve ==
    probeOut # <<>> =>
        LET t1 == probe[1] + probe[2]
            t2 == probe[1] + probe[3]
        IN  /\ t1 <= t2 => probeOut[1] <= probeOut[2]
            /\ t1 = 0 => probeOut[1] = IDLE_SPEED
            /\ t1 >= ACCELERATION_TIME => probeOut[1] = STAR_SPEED_MAX
            /\ probeOut[1] <= STAR_SPEED_MAX

C11_Witness ==
    /\ probeOut # <<>>
    /\ probe[1] + probe[2] = 0
    /\ probe[1] + probe[3] = ACCELERATION_TIME
    /\ probeOut = <<IDLE_SPEED, STAR_SPEED_MAX>>

(* What the last frame was run in: the hold of a break, after the exit      *)
(* animation, or breakComplete                                             *)
holdFrame ==
    /\ last = "animate"
    /\ starLog # <<>>
    /\ \/ pre.state = "breakComplete"
       \/ pre.state = "break" /\ now - pre.startTimeRef >= EXIT_ANIMATION_TIME

(* C12: a star that the depth update of a frame leaves at depth 1 or less   *)
(* is repositioned in that frame, to a depth of at least                    *)
(* STAR_RESPAWN_DISTANCE and below STAR_RESPAWN_DISTANCE + 800, and its     *)
(* hasValidPrev is false right after the repositioning.                     *)
C12_RespawnBeyondDistance ==
    (last = "animate" /\ starLog # <<>> /\ starLog.zMoved <= 1000) =>
        /\ starLog.respawned
        /\ starLog.placed.z >= STAR_RESPAWN_DISTANCE
        /\ starLog.placed.z < STAR_RESPAWN_DISTANCE + 800000
        /\ starLog.placed.hasValidPrev = FALSE
        /\ star.z = starLog.placed.z

C12_Witness ==
    /\ last = "animate"
    /\ starLog # <<>>
    /\ starLog.zMoved <= 1000
    /\ preStar.hasValidPrev
    /\ pre.state = "working"
    /\ star.z >= STAR_RESPAWN_DISTANCE

(* C13: a frame run in "break" at or after EXIT_ANIMATION_TIME, or in       *)
(* "breakComplete", changes no x, y or z of a star (it neither moves nor    *)
(* respawns it) and advances its twinkle phase by its twinkleSpeed.         *)
C13_HoldFreezesStars ==
    holdFrame =>
        /\ star.x = preStar.x
        /\ star.y = preStar.y
        /\ star.z = preStar.z
        /\ ~starLog.respawned
        /\ star.twinkle = preStar.twinkle + preStar.twinkleSpeed
        /\ star.twinkleSpeed = preStar.twinkleSpeed

C13_Witness ==
    /\ holdFrame
    /\ pre.state = "break"
    /\ star.twinkle > preStar.twinkle
    /\ frames >= 3

seconds(t) == t[1] * 60 + t[2]

(* C14: getProgress is within 0 and 100 and the remaining time of           *)
(* getCurrentTime within 0 and WORK_DURATION, in every state and at every   *)
(* time they are called; the total elapsed is never negative.               *)
C14_DisplayWithinRange ==
    /\ shown.progress >= 0 /\ shown.progress <= 100000
    /\ seconds(shown.time) >= 0
    /\ seconds(shown.time) * 1000 <= WORK_DURATION
    /\ shown.time[2] \in 0..59
    /\ getProgress(state, now, startTimeRef, workElapsedRef) \in 0..100000
    /\ seconds(getCurrentTime(state, now, startTimeRef, workElapsedRef)) * 1000
           \in 0..WORK_DURATION
    /\ workElapsedRef >= 0
    /\ now - startTimeRef >= 0
    /\ totalElapsedNow >= 0

C14_Witness ==
    /\ last = "render"
    /\ state = "working"
    /\ totalElapsedNow > WORK_DURATION
    /\ shown = [time |-> <<0, 0>>, progress |-> 100000]

(* C15: startTimeRef and workElapsedRef change only in a session transition *)
(* (the six handlers and the natural completion); a frame that makes no     *)
(* transition, and a render with its two queries, leave the state, both     *)
(* refs and the counter as they were.                                       *)
C15_ClockWrittenOnlyByTransitions ==
    LET same == /\ state = pre.state
                /\ startTimeRef = pre.startTimeRef
                /\ workElapsedRef = pre.workElapsedRef
                /\ completedSessions = pre.completedSessions
    IN  /\ (startTimeRef # pre.startTimeRef \/ workElapsedRef # pre.workElapsedRef)
              => \/ last \in UserOps
                 \/ last = "animate" /\ pre.state = "working" /\ state = "workComplete"
        /\ last = "render" => same
        /\ (last = "animate" /\ state = pre.state) => same

C15_Witness ==
    /\ last = "render"
    /\ state = "working"
    /\ now > pre.now
    /\ workElapsedRef > 0
    /\ shown.progress > 0

(* C16: while the component is mounted and the canvas is there, a frame     *)
(* callback is pending in every session state and after every change of     *)
(* it, and frames are run again and again.                                  *)
C16_LoopNeverStalls ==
    /\ [](mounted /\ canvasOk => pending = {animationRef})
    /\ \/ []<><<LoopFrame>>_vars
       \/ <>[](~mounted \/ ~canvasOk)

C16_Witness ==
    /\ mounted /\ canvasOk
    /\ last = "animate"
    /\ pre.state = "break" /\ state = "breakComplete"
    /\ completedSessions = 1
    /\ pending = {animationRef}

(* C17: once the component is unmounted no frame callback is pending and    *)
(* animate does not run again.                                              *)
C17_NoFrameAfterUnmount ==
    ~mounted => pending = {} /\ last = "unmount"

C17_Witness ==
    /\ ~mounted
    /\ state = "working"
    /\ pre.now > 0
    /\ animationRef # 0

(* C18: a frame callback that finds no canvas or no 2D context changes no   *)
(* session state, no clock value and no counter, and requests no frame.     *)
C18_NoCanvasFrameIsInert ==
    last = "animateNoCanvas" =>
        /\ state = pre.state
        /\ startTimeRef = pre.startTimeRef
        /\ workElapsedRef = pre.workElapsedRef
        /\ completedSessions = pre.completedSessions
        /\ now = pre.now
        /\ star = preStar
        /\ pending = {}

C18_Witness ==
    /\ last = "animateNoCanvas"
    /\ mounted
    /\ state = "working"
    /\ pending = {}

(* C19: the current theme is always one of the keys of THEMES: an unknown   *)
(* key given to changeTheme, or an unknown or missing item read from        *)
(* storage at load, leaves it as it was (CORE at load), and a frame paints  *)
(* in the colours of a theme of THEMES.                                     *)
C19_ThemeAlwaysDefined ==
    /\ currentTheme \in ThemeKey
    /\ frameTheme \in {THEMES[k] : k \in ThemeKey}
    /\ (last = "changeTheme" /\ preTheme.request \notin ThemeKey)
          => currentTheme = preTheme.currentTheme
    /\ (last = "reload" /\ lsTheme \notin ThemeKey) => currentTheme = "CORE"

(* C20: a key of THEMES selected with changeTheme is stored, and a reload   *)
(* with that key in storage gives the same current theme, so the same       *)
(* colours.                                                                 *)
C20_ThemeRoundTrip ==
    /\ (last = "changeTheme" /\ preTheme.request \in ThemeKey)
          => currentTheme = preTheme.request /\ lsTheme = preTheme.request
    /\ (last = "reload" /\ preTheme.currentTheme \in ThemeKey
           /\ preTheme.lsTheme = preTheme.currentTheme)
          => /\ currentTheme = preTheme.currentTheme
             /\ themeOf(currentTheme) = THEMES[preTheme.currentTheme]

C20_Witness ==
    /\ last = "reload"
    /\ preTheme.currentTheme = "FOG"
    /\ preTheme.lsTheme = "FOG"
    /\ currentTheme = "FOG"

-----------------------------------------------------------------------------
(* What the browser keeps between two loads of the page                    *)

(* Counts a returning user's browser holds from earlier completions *)
StoredCounts == {<<>>, <<9>>, <<9, 9>>}

(* lines 594-597: the flag is negated, set, and stored as its string; the
   audio element the rest of the handler drives is not part of this state *)
toggleAmbient ==
    LET newAmbientEnabled == ~ambientEnabled
    IN  /\ ambientEnabled' = newAmbientEnabled
        /\ lsAmbient' = (IF newAmbientEnabled THEN "true" ELSE "false")
        /\ last' = "toggleAmbient"
        /\ UNCHANGED fadeOpacity
        /\ pre' = Snap
        /\ UNCHANGED <<state, completedSessions, startTimeRef, workElapsedRef,
                       breakStartSpeedRef, lsCompleted, now, speed,
                       isExitingWarp, worked, fine>>

(* lines 828, 940: the toggle is in the panel shown while working *)
ClickAmbient == state = "working" /\ toggleAmbient

(* lines 397-418 run on a browser that holds a count: the page as loaded *)
InitStore ==
    /\ lsCompleted \in StoredCounts
    /\ completedSessions = (IF lsCompleted # <<>> THEN parseInt(lsCompleted) ELSE 0)
    /\ state = "idle"
    /\ startTimeRef = 0
    /\ workElapsedRef = 0
    /\ breakStartSpeedRef = 0
    /\ now = 0
    /\ speed = STAR_SPEED_MIN
    /\ isExitingWarp = FALSE
    /\ last = "init"
    /\ pre = [state |-> "idle", startTimeRef |-> 0, workElapsedRef |-> 0,
              completedSessions |-> completedSessions, now |-> 0, worked |-> 0]
    /\ worked = 0
    /\ fine = 0
    /\ fadeOpacity = 0
    /\ InitTheme
    /\ shown = [time |-> <<25, 0>>, progress |-> 0]
    /\ InitLoop
    /\ InitAmbient
    /\ InitClosure
    /\ canvasOk = TRUE
    /\ InitNoStar
    /\ InitNoProbe

NextStore ==
    \/ (\E dt \in CoarseSteps : animate(dt)) /\ UNCHANGED others
    \/ ClickMain /\ UNCHANGED others
    \/ ClickSurface /\ UNCHANGED others
    \/ ClickDisengage /\ UNCHANGED others
    \/ ClickResume /\ UNCHANGED others
    \/ ClickAmbient /\ UNCHANGED <<themeVars, noTheme>>
    \/ reload /\ UNCHANGED noTheme

SpecStore == InitStore /\ [][NextStore]_vars

(* C21: after toggleAmbient has stored a value and the page is reloaded,
   ambientEnabled is the value that was stored, for true and for false *)
C21_AmbientRoundTrip ==
    (last = "reload" /\ lsAmbient # "") => (ambientEnabled = (lsAmbient = "true"))

(* C22: after a natural completion the stored count is the decimal string of
   the counter and reads back as the counter, and a reload leaves the counter
   as it was before the reload *)
C22_CountRoundTrip ==
    /\ (last = "animate" /\ completedSessions = pre.completedSessions + 1)
          => /\ lsCompleted = toString(completedSessions)
             /\ parseInt(lsCompleted) = completedSessions
    /\ last = "reload" => completedSessions = pre.completedSessions

C22_Witness ==
    /\ last = "reload"
    /\ pre.completedSessions = 10
    /\ completedSessions = 10
    /\ lsCompleted = <<1, 0>>

-----------------------------------------------------------------------------
(* The star of the last frame, when a frame ran last *)
starFrame == frames > 0 /\ last = "animate"

(* The break the frame ran in was entered with startBreak, from             *)
(* workComplete: startBreak leaves 0 in breakStartSpeedRef, takeBreak the   *)
(* speed of the moment, which is at least IDLE_SPEED.                       *)
breakAfterCompletion == pre.state = "break" /\ breakStartSpeedRef = 0

(* C23: a frame draws a trail for the star only if its speed exceeds 0.5,
   the star's hasValidPrev is set and the frame's state is working or
   isExitingWarp holds; so no trail is drawn in idle, workComplete,
   breakComplete, the hold of a break, or a break entered from workComplete *)
C23_TrailOnlyWhenWarping ==
    (starFrame /\ starLog.trail) =>
        /\ speed > 500
        /\ starLog.placed.hasValidPrev
        /\ pre.state = "working" \/ isExitingWarp
        /\ pre.state \notin {"idle", "workComplete", "breakComplete"}
        /\ pre.state = "break" => now - startTimeRef < EXIT_ANIMATION_TIME
        /\ ~breakAfterCompletion

C23_Witness ==
    /\ starFrame
    /\ starLog.trail
    /\ pre.state = "break"
    /\ isExitingWarp
    /\ speed > 500

(* A frame of a break entered from workComplete, in its exit animation *)
C23_WitnessAfterCompletion ==
    /\ starFrame
    /\ breakAfterCompletion
    /\ isExitingWarp
    /\ ~starLog.trail

(* C24: no trail is drawn for the star in the frame in which it respawns or
   in the first frame after initStars; a trail that is drawn runs from the
   position the preceding frame stored, which is where that frame left the
   star, to the star's position in this frame *)
C24_TrailJoinsConsecutiveFrames ==
    (frames > 0 /\ starLog.trail) =>
        /\ ~starLog.respawned
        /\ frames > 1
        /\ preStar.hasValidPrev
        /\ starLog.from = <<preStar.prevX, preStar.prevY>>
        /\ starLog.from = <<project(preStar.x, preStar.z), project(preStar.y, preStar.z)>>
        /\ starLog.to = <<project(star.x, star.z), project(star.y, star.z)>>

C24_Witness ==
    /\ frames > 1
    /\ starLog.trail
    /\ pre.state = "working"
    /\ starLog.from # starLog.to

(* A star respawns in a frame fast enough for trails *)
C24_WitnessRespawn ==
    /\ starFrame
    /\ starLog.respawned
    /\ pre.state = "working"
    /\ speed > 500
    /\ preStar.hasValidPrev
    /\ ~starLog.trail

-----------------------------------------------------------------------------
(* The speed of a frame in the exit animation of a break (lines 232-249),   *)
(* as a function of the accumulated work time and of the time into the      *)
(* break, at sampled instants: every 100 ms and the last millisecond.       *)
ExitSamples == {k * (EXIT_ANIMATION_TIME \div 12) : k \in 0..11}
                  \cup {EXIT_ANIMATION_TIME - 1}
WorkSamples == {k * SampleStep : k \in 0..12} \cup {WORK_DURATION - 1}

InitExit ==
    /\ InitSession
    /\ InitTheme
    /\ shown = [time |-> <<25, 0>>, progress |-> 0]
    /\ InitLoop
    /\ InitAmbient
    /\ InitClosure
    /\ canvasOk = TRUE
    /\ InitNoStar
    /\ probe \in WorkSamples \X ExitSamples \X ExitSamples
    /\ probeOut = <<>>

(* the speed of two frames of one break, and the starting speed of line 245 *)
ProbeExit ==
    /\ probeOut = <<>>
    /\ probeOut' = <<frameSpeed("break", probe[2], probe[1]),
                     frameSpeed("break", probe[3], probe[1]),
                     workingSpeed(probe[1])>>
    /\ UNCHANGED <<sessionVars, themeVars, shown, loopVars, starVars, probe,
                   storeVars, captured, audio>>

SpecExit == InitExit /\ [][ProbeExit]_vars

(* C25: in the exit animation the speed never increases as the break goes
   on, is the starting speed at break elapsed 0, is at least 2% of the
   starting speed (to the thousandth the model keeps), and is positive *)
C25_ExitSpeedCurve ==
    probeOut # <<>> =>
        /\ probe[2] <= probe[3] => probeOut[1] >= probeOut[2]
        /\ probe[2] = 0 => probeOut[1] = probeOut[3]
        /\ probeOut[1] >= (probeOut[3] * 2) \div 100
        /\ probeOut[1] > 0

C25_Witness ==
    /\ probeOut # <<>>
    /\ probe[1] >= ACCELERATION_TIME
    /\ probe[2] = 0
    /\ probe[3] = EXIT_ANIMATION_TIME - 1
    /\ probeOut[1] = STAR_SPEED_MAX
    /\ probeOut[2] * 50 = STAR_SPEED_MAX

-----------------------------------------------------------------------------
(* The timer is on display (line 1159) *)
timerShown(st) == st \in {"working", "break"}

(* C26: within one session attempt, over any sequence of takeBreak and
   resumeWork, the remaining time getCurrentTime shows never increases and
   the percentage getProgress returns never decreases *)
C26_DisplayMonotoneInSession ==
    (timerShown(pre.state) /\ timerShown(state)) =>
        /\ seconds(getCurrentTime(state, now, startTimeRef, workElapsedRef))
             <= seconds(getCurrentTime(pre.state, pre.now, pre.startTimeRef,
                                       pre.workElapsedRef))
        /\ getProgress(state, now, startTimeRef, workElapsedRef)
             >= getProgress(pre.state, pre.now, pre.startTimeRef, pre.workElapsedRef)

-----------------------------------------------------------------------------
(* C27: the counter is never incremented early: in the frame that adds 1 to
   it, the time spent in "working" since the startWork or the increment
   before it has reached WORK_DURATION, whatever takeBreak, resumeWork,
   startBreak and frames came in between *)
C27_NoEarlyIncrement ==
    completedSessions # pre.completedSessions =>
        pre.worked + (now - pre.now) >= WORK_DURATION

C27_Witness ==
    /\ completedSessions = pre.completedSessions + 1
    /\ last = "animate"
    /\ pre.worked + (now - pre.now) > WORK_DURATION
    /\ pre.workElapsedRef > 0

-----------------------------------------------------------------------------
(* C30: in idle and in workComplete the accumulated work-elapsed is zero,
   by whatever path the state was entered, also after a break that ran out
   with part of the work done *)
C30_NoBankedWorkWhenIdle ==
    state \in {"idle", "workComplete"} => workElapsedRef = 0

C30_Witness ==
    /\ last = "returnToIdle"
    /\ pre.state = "breakComplete"
    /\ pre.workElapsedRef > 0
    /\ state = "idle"
    /\ workElapsedRef = 0

-----------------------------------------------------------------------------
(* The frame loop with the render apart from the update that asks for it.   *)
(* setState and setCompletedSessions queue their value (state and           *)
(* completedSessions hold the latest one); the render that follows makes a  *)
(* new animate over them and re-runs the effect of lines 583-591.  Until    *)
(* then the callback that is requested is the one of the last render, with  *)
(* what it closed over.                                                     *)
noClosure == <<themeVars, shown, starVars, probeVars, storeVars, audio>>

(* an update is queued that the last render has not seen *)
dirty == captured # [state |-> state, completedSessions |-> completedSessions]

(* Mutant: the effect requests the new callback and cancels nothing *)
commit_NoCleanup ==
    /\ dirty
    /\ captured' = [state |-> state, completedSessions |-> completedSessions]
    /\ pending' = requestFrame(pending, animationRef).pending
    /\ animationRef' = requestFrame(pending, animationRef).animationRef
    /\ last' = "commit"
    /\ UNCHANGED fadeOpacity
    /\ pre' = Snap
    /\ UNCHANGED <<state, completedSessions, startTimeRef, workElapsedRef,
                   breakStartSpeedRef, lsCompleted, now, speed, isExitingWarp,
                   worked, fine, mounted, canvasOk>>

(* The render after an update, and lines 583-591 for its new animate: the   *)
(* cleanup cancels the handle in animationRef, the effect requests anew     *)
commit ==
    /\ dirty
    /\ captured' = [state |-> state, completedSessions |-> completedSessions]
    /\ pending' = startAnimation(pending, animationRef).pending
    /\ animationRef' = startAnimation(pending, animationRef).animationRef
    /\ last' = "commit"
    /\ UNCHANGED fadeOpacity
    /\ pre' = Snap
    /\ UNCHANGED <<state, completedSessions, startTimeRef, workElapsedRef,
                   breakStartSpeedRef, lsCompleted, now, speed, isExitingWarp,
                   worked, fine, mounted, canvasOk>>

(* lines 167-394: the requested callback h runs with what it closed over    *)
(* and requests itself again (line 393)                                     *)
animateCaptured(h, dt) ==
    /\ animateAs(captured.state, captured.completedSessions, dt)
    /\ pending' = requestFrame(pending \ {h}, animationRef).pending
    /\ animationRef' = requestFrame(pending \ {h}, animationRef).animationRef
    /\ UNCHANGED <<mounted, canvasOk, captured>>

closureFrame == \E h \in pending : \E dt \in CoarseSteps : animateCaptured(h, dt)

(* The buttons are those of the last render; a click reaches them once the  *)
(* render is up to date                                                     *)
NextClosure ==
    \/ closureFrame /\ UNCHANGED noClosure
    \/ commit /\ UNCHANGED noClosure
    \/ ~dirty /\ ClickMain /\ UNCHANGED others
    \/ ~dirty /\ ClickSurface /\ UNCHANGED others
    \/ ~dirty /\ ClickDisengage /\ UNCHANGED others
    \/ ~dirty /\ ClickResume /\ UNCHANGED others

SpecClosure == Init /\ [][NextClosure]_vars

(* The completion is queued and the render has not followed: the requested  *)
(* callback is still the one that saw "working"                             *)
completionQueued == captured.state = "working" /\ state = "workComplete"

(* C28: when the callback that detected the completion runs again with the
   state working and the counter it closed over, before the render for
   workComplete, the counter and the stored count are still 1 above the
   counter before the completion *)
C28_StaleFrameCountsOnce ==
    /\ completionQueued =>
          /\ completedSessions = captured.completedSessions + 1
          /\ lsCompleted = toString(captured.completedSessions + 1)
    /\ last = "commit" =>
          /\ completedSessions = pre.completedSessions
          /\ lsCompleted = IF completedSessions = 0 THEN <<>>
                           ELSE toString(completedSessions)

(* the second run of the stale callback has detected the completion again *)
C28_Witness ==
    /\ completionQueued
    /\ last = "animate"
    /\ pre.state = "workComplete"
    /\ pre.completedSessions = 1
    /\ pre.workElapsedRef = 0
    /\ now - startTimeRef >= WORK_DURATION
    /\ completedSessions = 1
    /\ lsCompleted = <<1>>

(* C29: at most one frame callback is requested at any time; the render
   that replaces animate cancels the request in animationRef before it
   makes its own, so no second loop runs beside the first *)
C29_OneFrameLoop ==
    /\ Cardinality(pending) <= 1
    /\ pending \subseteq {animationRef}

(* the render for workComplete has replaced the callback that was stale *)
C29_Witness ==
    /\ last = "commit"
    /\ state = "workComplete"
    /\ captured.state = "workComplete"
    /\ pending = {animationRef}
    /\ animationRef # 0

-----------------------------------------------------------------------------
(* C31: at the end of every frame the star is at a depth above 1 and below
   STAR_RESPAWN_DISTANCE + 800, in every state of the session; so from the
   second frame on the projection at the start of a frame divides by a
   depth above 1 *)
C31_DepthInRange ==
    /\ frames >= 1 =>
          /\ star.z > 1000
          /\ star.z < STAR_RESPAWN_DISTANCE + 800000
    /\ frames >= 2 => preStar.z > 1000

(* a fast working frame took the star behind the viewer and placed it anew *)
C31_Witness ==
    /\ frames >= 2
    /\ last = "animate"
    /\ pre.state = "working"
    /\ starLog.zMoved < 0
    /\ starLog.respawned
    /\ star.z >= STAR_RESPAWN_DISTANCE

-----------------------------------------------------------------------------
(* What is drawn with the fade opacity, in thousandths                      *)

(* lines 388-391: the black overlay a frame lays over the canvas *)
overlayOpacity(st, fade) ==
    IF st = "workComplete" /\ fade > 0 THEN Min((fade * 7) \div 10, 500) ELSE 0

(* lines 800, 1012-1016: the completion message *)
showMessage == state = "workComplete"
messageOpacity == fadeOpacity

(* line 1037: the button of idle, workComplete and breakComplete *)
buttonOpacity == IF state = "workComplete" THEN fadeOpacity ELSE 1000

(* C32: the fade opacity is 0 in every reachable state; so no frame draws
   the black overlay of workComplete, and in workComplete the completion
   message and the button that starts the break have opacity 0 *)
C32_FadeOpacityAlwaysZero ==
    /\ fadeOpacity = 0
    /\ overlayOpacity(state, fadeOpacity) = 0
    /\ state = "workComplete" =>
          /\ showMessage /\ messageOpacity = 0
          /\ showButton /\ buttonOpacity = 0

C32_Witness ==
    /\ state = "workComplete"
    /\ last = "animate"
    /\ pre.state = "working"
    /\ showMessage
    /\ showButton
    /\ buttonOpacity = 0

-----------------------------------------------------------------------------
(* The ambient audio (lines 131-164 and 470-516), with ambient sound left   *)
(* enabled as the page starts it.  A fade-out ends in a timeout that pauses *)
(* the audio; pausing twice is pausing once, so the timeouts not yet run    *)
(* are kept as the set of the times they are due.                           *)

(* lines 131-148: the fade is started and its timeout set, t being the time *)
(* of the call                                                             *)
fadeOutAudio(a, enabled, t) ==
    IF ~enabled THEN a
    ELSE [a EXCEPT !.timers = @ \cup {t + AUDIO_FADE_DURATION}]

(* lines 470-516: the effect of a render with a new state *)
playAudio(a, st, enabled, t) ==
    IF st = "working" /\ enabled
    THEN [a EXCEPT !.paused = FALSE]
    ELSE IF st # "working" /\ enabled /\ ~a.paused
    THEN fadeOutAudio(a, enabled, t)
    ELSE a

(* lines 223-225, 671-674, 686-689: the handler that leaves "working"       *)
(* starts the fade; then the render for the new state runs the effect       *)
audioFollows ==
    LET handled == IF state = "working" /\ state' # "working" /\ ambientEnabled
                   THEN fadeOutAudio(audio, ambientEnabled, now')
                   ELSE audio
    IN  audio' = IF state' # state
                 THEN playAudio(handled, state', ambientEnabled, now')
                 ELSE handled

(* lines 143-146: a timeout that is due runs *)
fadeTimeout ==
    /\ \E due \in audio.timers :
          /\ due <= now
          /\ audio' = [paused |-> TRUE, timers |-> audio.timers \ {due}]
    /\ UNCHANGED <<sessionVars, themeVars, shown, loopVars, starVars,
                   probeVars, storeVars, captured>>

(* a timeout runs when it is due, before whatever comes later *)
noneOverdue == \A due \in audio.timers : due > now

noAudio == <<themeVars, shown, loopVars, starVars, probeVars, storeVars, captured>>

NextAudio ==
    \/ noneOverdue /\ (\E dt \in Steps : animate(dt)) /\ audioFollows
          /\ UNCHANGED noAudio
    \/ noneOverdue /\ ClickMain /\ audioFollows /\ UNCHANGED noAudio
    \/ noneOverdue /\ ClickSurface /\ audioFollows /\ UNCHANGED noAudio
    \/ noneOverdue /\ ClickDisengage /\ audioFollows /\ UNCHANGED noAudio
    \/ noneOverdue /\ ClickResume /\ audioFollows /\ UNCHANGED noAudio
    \/ fadeTimeout

SpecAudio == Init /\ [][NextAudio]_vars

(* C33: with the state working and ambient sound enabled, once the fade-out
   timeouts that were set have run, the audio is playing; a timeout set
   when the session left working does not pause it *)
C33_FadeNeverSilencesWork ==
    (state = "working" /\ ambientEnabled /\ audio.timers = {}) => ~audio.paused

====
